---- MODULE Spec2Model ----
(***************************************************************************)
(* A model of the recipe manager of smart-recipe (src/db_manager.py): the  *)
(* relational store (src/models.py), the five operations of                *)
(* RecipeDBManager that the routes of src/api/recipes.py call, and the     *)
(* request schemas of src/schemas.py.                                      *)
(*                                                                         *)
(* A call is one step: the handler runs from `async with self.session()`   *)
(* to its return or its HTTPException, and leaves the request, the status, *)
(* the error detail and the returned rows in op, request, status, detail   *)
(* and result.  The route then sends the response (respond) and the        *)
(* service is idle again.                                                  *)
(*                                                                         *)
(* SpecConcurrent serves update_recipe and delete_recipe calls at once,    *)
(* each in a session of its own and one statement at a time: what a        *)
(* session wrote reaches the tables at its commit.                         *)
(***************************************************************************)
EXTENDS Integers, Sequences, FiniteSets, Bags, TLC

(* ------------------------------ bounds -------------------------------- *)

\* The recipes id sequence is capped: no recipe gets an id above MaxRecipeId.
MaxRecipeId == 2

\* The longest list a request carries (ingredient ids, ingredient names,
\* include, exclude).
MaxLen == 2

\* The recipes created while calls are served at once.
MaxConcurrentRecipes == 1

(* ----------------------------- Optional[T] ---------------------------- *)

\* Optional[T] is a sequence of at most one element: None is <<>>.
None == <<>>

Some(v) == <<v>>

BoundedSeq(S) == UNION {[1..n -> S] : n \in 0..MaxLen}

Range(s) == {s[i] : i \in DOMAIN s}

\* The bag of the elements of a sequence, one copy per occurrence.
SeqToBag(s) == [x \in Range(s) |-> Cardinality({i \in DOMAIN s : s[i] = x})]

(* ------------------------------ the store ----------------------------- *)

VARIABLES
    kitchens,            \* table kitchens: id -> name
    ingredients,         \* table ingredients: id -> name
    recipes,             \* table recipes: id -> row
    recipe_ingredients,  \* table recipe_ingredients: a bag of rows
    recipes_id_seq,      \* the next value of recipes.id (autoincrement)
    op,                  \* the call that ran last, "idle" between calls
    request,             \* its arguments
    status,              \* its HTTP status
    detail,              \* the detail of its HTTPException, <<>> on success
    result,              \* the bag of recipes it returned
    sessions             \* the open sessions of the requests served at once

store == <<kitchens, ingredients, recipes, recipe_ingredients, recipes_id_seq>>

\* The call the service runs from its begin to its end in one step.
serial == <<op, request, status, detail, result>>

vars == <<kitchens, ingredients, recipes, recipe_ingredients, recipes_id_seq,
          op, request, status, detail, result, sessions>>

\* The rows the tests seed before they call the manager.
KitchenSeed == (1 :> "Mexican") @@ (2 :> "Spanish")

IngredientSeed == (1 :> "Avocado") @@ (2 :> "Tomato")

\* A row of recipe_ingredients.  Its surrogate key (id) is never read by the
\* manager; the table is a bag, so two rows with the same pair are two rows.
Row(recipe_id, ingredient_id) ==
    [recipe_id |-> recipe_id, ingredient_id |-> ingredient_id]

\* RecipesModel.recipe_ingredients: the rows of one recipe.
RowsOf(rows, recipe_id) ==
    [x \in {y \in DOMAIN rows : y.recipe_id = recipe_id} |-> rows[x]]

\* The ingredient ids of a recipe, one copy per row.
IngredientIdsOf(rows, recipe_id) ==
    [i \in {x.ingredient_id : x \in DOMAIN RowsOf(rows, recipe_id)} |->
        rows[Row(recipe_id, i)]]

\* A RecipesModel instance with its relationship loaded.
Loaded(recs, rows, id) ==
    [id |-> id,
     title |-> recs[id].title,
     instruction |-> recs[id].instruction,
     cooking_time |-> recs[id].cooking_time,
     cooking_difficulty |-> recs[id].cooking_difficulty,
     kitchen_id |-> recs[id].kitchen_id,
     recipe_ingredients |-> IngredientIdsOf(rows, id)]

(* ------------------------------ sessions ------------------------------ *)

\* The requests served at the same time, each in a session of its own
\* (async_session()).  The engine is created without isolation_level, so a
\* transaction runs at the default of PostgreSQL, READ COMMITTED: a statement
\* reads what is committed when it runs and what its own transaction wrote,
\* and nothing a session wrote is in the tables before its commit.
Sessions == {"s1", "s2"}

\* A session no call is using.  Of a call in progress it holds: pc, the
\* statement the call is at; loaded, the recipe row as sess.get read it;
\* recipe, the RecipesModel instance as the call has set it; locked, whether
\* the session has sent an UPDATE of the row (and holds its row lock);
\* deleted, the rows its DELETE has taken; added, the RecipeIngredientsModel
\* instances it has added; shared, whether it has sent an INSERT of them (and
\* holds the key-share lock of the foreign key on the recipe row); i, the
\* position of the loop in ingredient_names.
Closed ==
    [pc |-> "idle", call |-> "", recipe_id |-> 0, update_data |-> <<>>,
     loaded |-> <<>>, recipe |-> <<>>, locked |-> FALSE,
     deleted |-> EmptyBag, added |-> EmptyBag, shared |-> FALSE, i |-> 0,
     status |-> 0, detail |-> <<>>]

(* ------------------------------ responses ----------------------------- *)

KitchenNotFound == <<"Kitchen not found">>

RecipeNotFound == <<"Recipe not found">>

IngredientIdNotFound(ingr_id) ==
    <<"Ingredient with id=", ToString(ingr_id), " not found">>

IngredientNameNotFound(name) == <<"Ingredient '", name, "' not found">>

\* raise HTTPException inside `async with self.session()`: the session is
\* closed without a commit, so nothing it did is kept.
Raise(code, msg) ==
    /\ status' = code
    /\ detail' = msg
    /\ result' = EmptyBag
    /\ UNCHANGED <<store, sessions>>

\* The handler returned `rows` after its commit left the tables as given.
Return(code, recs, rows, seq, returned) ==
    /\ status' = code
    /\ detail' = <<>>
    /\ result' = returned
    /\ recipes' = recs
    /\ recipe_ingredients' = rows
    /\ recipes_id_seq' = seq
    /\ UNCHANGED <<kitchens, ingredients, sessions>>

(* ---------------------------- create_recipe --------------------------- *)

\* KitchenExists without the `if not kitchen` check.
KitchenExists_Unchecked(ks, kitchen_id) == TRUE

\* sess.get(KitchensModel, kitchen_id) found a row.
KitchenExists(ks, kitchen_id) == kitchen_id \in DOMAIN ks

\* FirstMissingId reporting the last missing id of the list, not the first.
FirstMissingId_Last(ings, ids) ==
    LET bad == {i \in DOMAIN ids : ids[i] \notin DOMAIN ings}
    IN  IF bad = {} THEN 0 ELSE CHOOSE i \in bad : \A j \in bad : i >= j

\* The position of the first id of the list that names no ingredient, 0 when
\* every id does: the validation loop raises there.
FirstMissingId(ings, ids) ==
    LET bad == {i \in DOMAIN ids : ids[i] \notin DOMAIN ings}
    IN  IF bad = {} THEN 0 ELSE CHOOSE i \in bad : \A j \in bad : i <= j

\* IngredientObjs building one row per distinct id of the list.
IngredientObjs_Distinct(recipe_id, ids) ==
    SetToBag({Row(recipe_id, ids[i]) : i \in DOMAIN ids})

\* ingredient_objs: one RecipeIngredientsModel per id of the list.
IngredientObjs(recipe_id, ids) ==
    SeqToBag([i \in DOMAIN ids |-> Row(recipe_id, ids[i])])

\* RecipesModel(title=..., kitchen_id=kitchen.id)
NewRecipe(recipe) ==
    [title |-> recipe.title,
     instruction |-> recipe.instruction,
     cooking_time |-> recipe.cooking_time,
     cooking_difficulty |-> recipe.cooking_difficulty,
     kitchen_id |-> recipe.kitchen_id]

create_recipe(recipe) ==
    /\ op = "idle"
    /\ recipes_id_seq <= MaxRecipeId
    /\ op' = "create_recipe"
    /\ request' = recipe
    /\ IF ~KitchenExists(kitchens, recipe.kitchen_id)
       THEN Raise(404, KitchenNotFound)
       ELSE LET bad == FirstMissingId(ingredients, recipe.recipe_ingredients)
                id == recipes_id_seq
                recs == (id :> NewRecipe(recipe)) @@ recipes
                rows == recipe_ingredients
                          (+) IngredientObjs(id, recipe.recipe_ingredients)
            IN  IF bad # 0
                THEN Raise(404,
                        IngredientIdNotFound(recipe.recipe_ingredients[bad]))
                ELSE Return(201, recs, rows, id + 1,
                        SetToBag({Loaded(recs, rows, id)}))

(* -------------------------- get_recipe_by_id -------------------------- *)

\* Fetch without its where(): the first recipe of the table, whatever the id.
Fetch_NoWhere(recs, rows, recipe_id) ==
    IF DOMAIN recs # {}
    THEN Some(Loaded(recs, rows, CHOOSE id \in DOMAIN recs : TRUE))
    ELSE None

\* result.unique().scalar_one_or_none(): the recipe with its rows joined, None
\* when no recipe has the id.
Fetch(recs, rows, recipe_id) ==
    IF recipe_id \in DOMAIN recs
    THEN Some(Loaded(recs, rows, recipe_id))
    ELSE None

get_recipe_by_id(recipe_id) ==
    /\ op = "idle"
    /\ op' = "get_recipe_by_id"
    /\ request' = [recipe_id |-> recipe_id]
    /\ LET recipe == Fetch(recipes, recipe_ingredients, recipe_id)
       IN  IF recipe = None
           THEN Raise(404, RecipeNotFound)
           ELSE Return(200, recipes, recipe_ingredients, recipes_id_seq,
                   SetToBag({recipe[1]}))

(* ---------------------------- update_recipe --------------------------- *)

\* SetFields testing `if update_data.<field>:`: the empty string and 0 are
\* false and leave the column as it was.
SetFields_Truthy(row, update_data) ==
    [row EXCEPT
        !.title = IF update_data.title \notin {None, Some("")}
                  THEN update_data.title[1] ELSE @,
        !.instruction = IF update_data.instruction \notin {None, Some("")}
                        THEN update_data.instruction[1] ELSE @,
        !.cooking_time = IF update_data.cooking_time \notin {None, Some(0)}
                         THEN update_data.cooking_time[1] ELSE @,
        !.cooking_difficulty = IF update_data.cooking_difficulty # None
                               THEN update_data.cooking_difficulty[1] ELSE @]

\* SetFields giving cooking_difficulty the default of CreateRecipeSchema when
\* the request leaves it None.
SetFields_DefaultDifficulty(row, update_data) ==
    [row EXCEPT
        !.title = IF update_data.title # None
                  THEN update_data.title[1] ELSE @,
        !.instruction = IF update_data.instruction # None
                        THEN update_data.instruction[1] ELSE @,
        !.cooking_time = IF update_data.cooking_time # None
                         THEN update_data.cooking_time[1] ELSE @,
        !.cooking_difficulty = IF update_data.cooking_difficulty # None
                               THEN update_data.cooking_difficulty[1]
                               ELSE "MEDIUM"]

\* `if update_data.<field> is not None: recipe.<field> = update_data.<field>`
\* for the four columns the request carries by value.
SetFields(row, update_data) ==
    [row EXCEPT
        !.title = IF update_data.title # None
                  THEN update_data.title[1] ELSE @,
        !.instruction = IF update_data.instruction # None
                        THEN update_data.instruction[1] ELSE @,
        !.cooking_time = IF update_data.cooking_time # None
                         THEN update_data.cooking_time[1] ELSE @,
        !.cooking_difficulty = IF update_data.cooking_difficulty # None
                               THEN update_data.cooking_difficulty[1] ELSE @]

\* select(KitchensModel).where(KitchensModel.name == kitchen_name): names are
\* not unique and the query has no ORDER BY, so sess.scalar may return any
\* of the matching rows.
KitchensNamed(ks, kitchen_name) == {k \in DOMAIN ks : ks[k] = kitchen_name}

\* select(IngredientsModel).where(IngredientsModel.name == name), likewise.
IngredientsNamed(ings, name) == {i \in DOMAIN ings : ings[i] = name}

\* The kitchen ids the recipe may end with: the one it has when the request
\* names none, else any kitchen of that name.
KitchenChoices(ks, row, update_data) ==
    IF update_data.kitchen_name = None
    THEN {row.kitchen_id}
    ELSE KitchensNamed(ks, update_data.kitchen_name[1])

\* FirstUnresolved reporting the last name that matches no ingredient.
FirstUnresolved_Last(ings, names) ==
    LET bad == {i \in DOMAIN names : \A g \in DOMAIN ings : ings[g] # names[i]}
    IN  IF bad = {} THEN 0 ELSE CHOOSE i \in bad : \A j \in bad : i >= j

\* The position of the first name of the list that matches no ingredient, 0
\* when every name does: the loop raises there.
FirstUnresolved(ings, names) ==
    LET bad == {i \in DOMAIN names : IngredientsNamed(ings, names[i]) = {}}
    IN  IF bad = {} THEN 0 ELSE CHOOSE i \in bad : \A j \in bad : i <= j

\* The lists of ingredient ids the loop may resolve the names to.
Resolutions(ings, names) ==
    {ids \in [DOMAIN names -> DOMAIN ings] :
        \A i \in DOMAIN names : ings[ids[i]] = names[i]}

\* DeleteRowsOf with the where() on the wrong column: ingredient_id.
DeleteRowsOf_WrongColumn(rows, recipe_id) ==
    rows (-) [x \in {y \in DOMAIN rows : y.ingredient_id = recipe_id} |-> rows[x]]

\* DeleteRowsOf without its where(): every row of the table goes.
DeleteRowsOf_NoWhere(rows, recipe_id) == EmptyBag

\* DeleteRowsOf without the DELETE: the old rows stay.
DeleteRowsOf_Skipped(rows, recipe_id) == rows

\* delete(RecipeIngredientsModel).where(recipe_id == recipe.id)
DeleteRowsOf(rows, recipe_id) == rows (-) RowsOf(rows, recipe_id)

\* The rows of the table after the ingredient block: the old rows of the
\* recipe deleted, one new row added per resolved name.
ReplaceRows(rows, recipe_id, ids) ==
    DeleteRowsOf(rows, recipe_id) (+) IngredientObjs(recipe_id, ids)

update_recipe(recipe_id, update_data) ==
    /\ op = "idle"
    /\ op' = "update_recipe"
    /\ request' = [recipe_id |-> recipe_id, update_data |-> update_data]
    /\ IF recipe_id \notin DOMAIN recipes
       THEN Raise(404, RecipeNotFound)
       ELSE LET row == SetFields(recipes[recipe_id], update_data)
                names == update_data.ingredient_names
            IN  IF KitchenChoices(kitchens, row, update_data) = {}
                THEN Raise(404, KitchenNotFound)
                ELSE IF names # None /\ FirstUnresolved(ingredients, names[1]) # 0
                THEN Raise(404, IngredientNameNotFound(
                        names[1][FirstUnresolved(ingredients, names[1])]))
                ELSE \E k \in KitchenChoices(kitchens, row, update_data) :
                     \E rows \in
                        IF names = None
                        THEN {recipe_ingredients}
                        ELSE {ReplaceRows(recipe_ingredients, recipe_id, ids) :
                                ids \in Resolutions(ingredients, names[1])} :
                        LET recs == [recipes EXCEPT
                                        ![recipe_id] = [row EXCEPT !.kitchen_id = k]]
                        IN  Return(200, recs, rows, recipes_id_seq,
                                SetToBag({Loaded(recs, rows, recipe_id)}))

(* ---------------------------- delete_recipe --------------------------- *)

\* sess.delete(recipe) with cascade="all, delete-orphan" on
\* RecipesModel.recipe_ingredients and ondelete="CASCADE" on recipe_id.
delete_recipe(recipe_id) ==
    /\ op = "idle"
    /\ op' = "delete_recipe"
    /\ request' = [recipe_id |-> recipe_id]
    /\ IF recipe_id \notin DOMAIN recipes
       THEN Raise(404, RecipeNotFound)
       ELSE Return(200,
               [id \in DOMAIN recipes \ {recipe_id} |-> recipes[id]],
               DeleteRowsOf(recipe_ingredients, recipe_id),
               recipes_id_seq, EmptyBag)

(* -------------------- filter_recipes_by_ingredients ------------------- *)

\* `if include:` and `if exclude:`: None and the empty list are both false.
Truthy(list) == list # None /\ list[1] # <<>>

\* recipe_ingredients JOIN ingredients WHERE ingredients.name IN names
RowsNamed(rows, ings, names) ==
    [x \in {y \in DOMAIN rows :
              /\ y.ingredient_id \in DOMAIN ings
              /\ ings[y.ingredient_id] \in Range(names)} |-> rows[x]]

\* The include subquery: GROUP BY recipe_id
\* HAVING count(ingredient_id) == len(include).
IncludeSubquery(rows, ings, include) ==
    LET named == RowsNamed(rows, ings, include)
    IN  {id \in {x.recipe_id : x \in DOMAIN named} :
            BagCardinality(RowsOf(named, id)) = Len(include)}

\* ExcludedRecipes with the HAVING clause of the include subquery: a recipe is
\* excluded only when it has every name of the list.
ExcludedRecipes_AllNames(rows, ings, exclude) ==
    LET named == RowsNamed(rows, ings, exclude)
    IN  {id \in {x.recipe_id : x \in DOMAIN named} :
            BagCardinality(RowsOf(named, id)) = Len(exclude)}

\* The exclude subquery: the recipe_id of every row of an excluded name.
ExcludedRecipes(rows, ings, exclude) ==
    {x.recipe_id : x \in DOMAIN RowsNamed(rows, ings, exclude)}

\* Selected with `elif exclude:`: the exclude list is read only when there is
\* no include list.
Selected_ElifExclude(recs, rows, ings, include, exclude) ==
    {id \in DOMAIN recs :
        IF Truthy(include)
        THEN id \in IncludeSubquery(rows, ings, include[1])
        ELSE Truthy(exclude)
                => id \notin ExcludedRecipes(rows, ings, exclude[1])}

\* The WHERE clause of the query.
Selected(recs, rows, ings, include, exclude) ==
    {id \in DOMAIN recs :
        /\ Truthy(include) => id \in IncludeSubquery(rows, ings, include[1])
        /\ Truthy(exclude) => id \notin ExcludedRecipes(rows, ings, exclude[1])}

\* joinedload(RecipesModel.recipe_ingredients): a LEFT OUTER JOIN, one result
\* row per row of the recipe and one for a recipe that has none.
JoinedRows(rows, ids) ==
    [id \in ids |->
        IF BagCardinality(RowsOf(rows, id)) = 0
        THEN 1 ELSE BagCardinality(RowsOf(rows, id))]

\* Unique without the call of unique(): the rows of the join as they are.
Unique_Skipped(bag) == bag

\* result.unique(): each entity once.
Unique(bag) == SetToBag(BagToSet(bag))

\* The list the query returns.  The query has no ORDER BY, so the list is a
\* bag: what is known of it is how often each recipe is in it.
FilterResult(recs, rows, ings, include, exclude) ==
    LET found == Unique(JoinedRows(rows,
                    Selected(recs, rows, ings, include, exclude)))
    IN  [r \in {Loaded(recs, rows, id) : id \in DOMAIN found} |-> found[r.id]]

filter_recipes_by_ingredients(include, exclude) ==
    /\ op = "idle"
    /\ op' = "filter_recipes_by_ingredients"
    /\ request' = [include |-> include, exclude |-> exclude]
    /\ Return(200, recipes, recipe_ingredients, recipes_id_seq,
          FilterResult(recipes, recipe_ingredients, ingredients,
                       include, exclude))

(* ------------------------------- respond ------------------------------ *)

\* The route returns its JSONResponse (or FastAPI the error): the call is over.
respond ==
    /\ op # "idle"
    /\ op' = "idle"
    /\ request' = <<>>
    /\ status' = 0
    /\ detail' = <<>>
    /\ result' = EmptyBag
    /\ UNCHANGED <<store, sessions>>

(* ------------------------------ requests ------------------------------ *)

\* Two ids no row has.
MissingId == 9999

OtherMissingId == 999

KitchenIds == DOMAIN KitchenSeed \cup {MissingId}

IngredientIds == DOMAIN IngredientSeed \cup {MissingId, OtherMissingId}

RecipeIds == 1..(MaxRecipeId + 1)

CreateRecipeSchema ==
    [title : {"Taco"},
     instruction : {"Chop"},
     cooking_time : {15},
     cooking_difficulty : {"EASY"},
     kitchen_id : KitchenIds,
     recipe_ingredients : BoundedSeq(IngredientIds)]

MissingName == "Salt"

OtherMissingName == "Pepper"

MissingKitchen == "NonExistent"

Optional(S) == {None} \cup {Some(v) : v \in S}

\* The lists of names an update request carries: an ingredient that exists and
\* a name no ingredient has, in every order, and one list of two names no
\* ingredient has.
IngredientNames ==
    BoundedSeq({"Tomato", MissingName}) \cup {<<OtherMissingName, MissingName>>}

\* An update request carries each field or leaves it None.  Of the four
\* columns carried by value the requests drawn specify none, the title alone,
\* or all four; the schema takes the empty string and 0 (no min_length, no
\* gt).
UpdateRecipeSchema ==
    {u \in [title : Optional({""}),
            instruction : Optional({""}),
            cooking_time : Optional({0}),
            cooking_difficulty : Optional({"MEDIUM"}),
            kitchen_name : Optional({"Spanish", MissingKitchen}),
            ingredient_names : Optional(IngredientNames)] :
        \/ /\ u.instruction = None
           /\ u.cooking_time = None
           /\ u.cooking_difficulty = None
        \/ /\ u.title # None
           /\ u.instruction # None
           /\ u.cooking_time # None
           /\ u.cooking_difficulty # None}

FilterNames == Optional(BoundedSeq({"Avocado", "Tomato"}))

(* ---------------------------- specification --------------------------- *)

Init ==
    /\ kitchens = KitchenSeed
    /\ ingredients = IngredientSeed
    /\ recipes = <<>>
    /\ recipe_ingredients = EmptyBag
    /\ recipes_id_seq = 1
    /\ op = "idle"
    /\ request = <<>>
    /\ status = 0
    /\ detail = <<>>
    /\ result = EmptyBag
    /\ sessions = [s \in Sessions |-> Closed]

Next ==
    \/ \E recipe \in CreateRecipeSchema : create_recipe(recipe)
    \/ \E recipe_id \in RecipeIds : get_recipe_by_id(recipe_id)
    \/ \E recipe_id \in RecipeIds, update_data \in UpdateRecipeSchema :
            update_recipe(recipe_id, update_data)
    \/ \E recipe_id \in RecipeIds : delete_recipe(recipe_id)
    \/ \E include \in FilterNames, exclude \in FilterNames :
            filter_recipes_by_ingredients(include, exclude)
    \/ respond

Spec == Init /\ [][Next]_vars

(* ----------------------- calls served at once ------------------------- *)

\* An exception FastAPI does not know (StaleDataError, IntegrityError,
\* InvalidRequestError): the response is 500.
InternalServerError == <<"Internal Server Error">>

\* The UPDATE of a flush sets the columns whose value is not the loaded one.
MergeRow(row, loaded, recipe) ==
    [row EXCEPT
        !.title = IF recipe.title # loaded.title THEN recipe.title ELSE @,
        !.instruction = IF recipe.instruction # loaded.instruction
                        THEN recipe.instruction ELSE @,
        !.cooking_time = IF recipe.cooking_time # loaded.cooking_time
                         THEN recipe.cooking_time ELSE @,
        !.cooking_difficulty =
            IF recipe.cooking_difficulty # loaded.cooking_difficulty
            THEN recipe.cooking_difficulty ELSE @,
        !.kitchen_id = IF recipe.kitchen_id # loaded.kitchen_id
                       THEN recipe.kitchen_id ELSE @]

\* The tables as the commit of the session leaves them.
WrittenRecipes(recs, sess) ==
    IF sess.recipe_id \in DOMAIN recs /\ sess.call = "update_recipe"
    THEN [recs EXCEPT ![sess.recipe_id] = MergeRow(@, sess.loaded, sess.recipe)]
    ELSE recs

\* Rows are told apart by their pair, not by their id: a row another session
\* committed with the pair of a row the DELETE took goes with it.
WrittenRows(rows, sess) == (rows (-) sess.deleted) (+) sess.added

\* The session of a call that is over: what is left is the call, its
\* arguments and its response.
Ended(sess, code, msg) ==
    [Closed EXCEPT !.pc = "done",
                   !.call = sess.call,
                   !.recipe_id = sess.recipe_id,
                   !.update_data = sess.update_data,
                   !.status = code,
                   !.detail = msg]

\* RaiseIn with a session that commits what it wrote when it is closed.
RaiseIn_Autocommit(s, sess, code, msg) ==
    /\ sessions' = [sessions EXCEPT ![s] = Ended(sess, code, msg)]
    /\ recipes' = WrittenRecipes(recipes, sess)
    /\ recipe_ingredients' = WrittenRows(recipe_ingredients, sess)
    /\ UNCHANGED <<kitchens, ingredients, recipes_id_seq>>

\* An exception leaves `async with self.session()`: the session is closed,
\* its transaction rolled back.
RaiseIn(s, sess, code, msg) ==
    /\ sessions' = [sessions EXCEPT ![s] = Ended(sess, code, msg)]
    /\ UNCHANGED store

\* The flush has an UPDATE of the recipe row to send.
NeedsUpdate(sess) == sess.recipe # sess.loaded

\* Another session in progress has sent an UPDATE of the recipe row.
RowLocked(s, recipe_id) ==
    \E t \in Sessions \ {s} :
        /\ sessions[t].pc \notin {"idle", "done"}
        /\ sessions[t].recipe_id = recipe_id
        /\ sessions[t].locked

\* Another session in progress has sent an INSERT of a row of the recipe.
KeyShared(s, recipe_id) ==
    \E t \in Sessions \ {s} :
        /\ sessions[t].pc \notin {"idle", "done"}
        /\ sessions[t].recipe_id = recipe_id
        /\ sessions[t].shared

\* The UPDATE of a flush waits for the row lock another session holds.
CanFlush(s) ==
    NeedsUpdate(sessions[s]) => ~RowLocked(s, sessions[s].recipe_id)

\* The UPDATE matched no row (StaleDataError): the recipe is gone.
Stale(recs, sess) == NeedsUpdate(sess) /\ sess.recipe_id \notin DOMAIN recs

\* ForeignKeyHolds without ForeignKey("recipes.id") on recipe_id.
ForeignKeyHolds_Unchecked(recs, sess) == TRUE

\* The INSERT of the rows added satisfies ForeignKey("recipes.id"); when it
\* does not the flush ends in IntegrityError.
ForeignKeyHolds(recs, sess) ==
    sess.added = EmptyBag \/ sess.recipe_id \in DOMAIN recs

\* The session after the autoflush that precedes a query.
Flushed(sess) ==
    [sess EXCEPT !.locked = @ \/ NeedsUpdate(sess),
                 !.shared = @ \/ sess.added # EmptyBag]

\* The statement update_recipe is at after the kitchen block.
AfterKitchen(update_data) ==
    IF update_data.ingredient_names # None THEN "delete" ELSE "commit"

\* The statement update_recipe is at after sess.get and the overwrites.
AfterGet(update_data) ==
    IF update_data.kitchen_name # None
    THEN "kitchen" ELSE AfterKitchen(update_data)

\* update_recipe, from sess.get to the last of the overwrites.
update_recipe_get(s, recipe_id, update_data) ==
    /\ sessions[s].pc = "idle"
    /\ UNCHANGED serial
    /\ LET sess == [Closed EXCEPT !.call = "update_recipe",
                                  !.recipe_id = recipe_id,
                                  !.update_data = update_data]
       IN  IF recipe_id \notin DOMAIN recipes
           THEN RaiseIn(s, sess, 404, RecipeNotFound)
           ELSE /\ sessions' =
                     [sessions EXCEPT
                        ![s] = [sess EXCEPT
                                  !.pc = AfterGet(update_data),
                                  !.loaded = recipes[recipe_id],
                                  !.recipe = SetFields(recipes[recipe_id],
                                                       update_data)]]
                /\ UNCHANGED store

\* update_recipe, the kitchen block: the autoflush, the query by name, the
\* assignment of kitchen_id.
update_recipe_kitchen(s) ==
    LET sess == sessions[s]
    IN  /\ sess.pc = "kitchen"
        /\ CanFlush(s)
        /\ UNCHANGED serial
        /\ IF Stale(recipes, sess)
           THEN RaiseIn(s, sess, 500, InternalServerError)
           ELSE IF KitchenChoices(kitchens, sess.recipe, sess.update_data) = {}
           THEN RaiseIn(s, Flushed(sess), 404, KitchenNotFound)
           ELSE \E k \in KitchenChoices(kitchens, sess.recipe,
                                        sess.update_data) :
                    /\ sessions' =
                         [sessions EXCEPT
                            ![s] = [Flushed(sess) EXCEPT
                                      !.pc = AfterKitchen(sess.update_data),
                                      !.recipe = [@ EXCEPT !.kitchen_id = k]]]
                    /\ UNCHANGED store

\* update_recipe, the DELETE of the old rows, after its autoflush.
update_recipe_delete(s) ==
    LET sess == sessions[s]
    IN  /\ sess.pc = "delete"
        /\ CanFlush(s)
        /\ UNCHANGED serial
        /\ IF Stale(recipes, sess)
           THEN RaiseIn(s, sess, 500, InternalServerError)
           ELSE /\ sessions' =
                     [sessions EXCEPT
                        ![s] = [Flushed(sess) EXCEPT
                                  !.pc = IF sess.update_data.ingredient_names[1]
                                            = <<>>
                                         THEN "commit" ELSE "names",
                                  !.i = 1,
                                  !.deleted = RowsOf(recipe_ingredients,
                                                     sess.recipe_id)]]
                /\ UNCHANGED store

\* update_recipe, one turn of the loop: the autoflush (the INSERT of the row
\* the turn before added), the query by name, sess.add.
update_recipe_name(s) ==
    LET sess == sessions[s]
        names == sess.update_data.ingredient_names[1]
    IN  /\ sess.pc = "names"
        /\ UNCHANGED serial
        /\ IF ~ForeignKeyHolds(recipes, sess)
           THEN RaiseIn(s, sess, 500, InternalServerError)
           ELSE IF IngredientsNamed(ingredients, names[sess.i]) = {}
           THEN RaiseIn(s, Flushed(sess), 404,
                        IngredientNameNotFound(names[sess.i]))
           ELSE \E g \in IngredientsNamed(ingredients, names[sess.i]) :
                    /\ sessions' =
                         [sessions EXCEPT
                            ![s] = [Flushed(sess) EXCEPT
                                      !.pc = IF sess.i = Len(names)
                                             THEN "commit" ELSE "names",
                                      !.i = @ + 1,
                                      !.added = @ (+) IngredientObjs(
                                                  sess.recipe_id, <<g>>)]]
                    /\ UNCHANGED store

\* update_recipe, sess.commit (the last flush, then COMMIT) and sess.refresh,
\* which fails when the row is gone.
update_recipe_commit(s) ==
    LET sess == sessions[s]
    IN  /\ sess.pc = "commit"
        /\ CanFlush(s)
        /\ UNCHANGED serial
        /\ IF Stale(recipes, sess) \/ ~ForeignKeyHolds(recipes, sess)
           THEN RaiseIn(s, sess, 500, InternalServerError)
           ELSE /\ recipes' = WrittenRecipes(recipes, sess)
                /\ recipe_ingredients' = WrittenRows(recipe_ingredients, sess)
                /\ UNCHANGED <<kitchens, ingredients, recipes_id_seq>>
                /\ sessions' =
                     [sessions EXCEPT
                        ![s] = IF sess.recipe_id \in DOMAIN recipes
                               THEN Ended(sess, 200, <<>>)
                               ELSE Ended(sess, 500, InternalServerError)]

\* delete_recipe, the call of get_recipe_by_id: a session of its own, closed
\* when it returns.
delete_recipe_get(s, recipe_id) ==
    /\ sessions[s].pc = "idle"
    /\ UNCHANGED serial
    /\ LET sess == [Closed EXCEPT !.call = "delete_recipe",
                                  !.recipe_id = recipe_id]
       IN  IF Fetch(recipes, recipe_ingredients, recipe_id) = None
           THEN RaiseIn(s, sess, 404, RecipeNotFound)
           ELSE /\ sessions' = [sessions EXCEPT
                                  ![s] = [sess EXCEPT !.pc = "sess.delete"]]
                /\ UNCHANGED store

\* delete_recipe, sess.delete and sess.commit: the DELETE of the recipe row
\* waits for the locks other sessions hold on it; the rows go by the cascade.
\* A DELETE that matches no row is a warning of the mapper, not an error.
delete_recipe_commit(s) ==
    LET sess == sessions[s]
    IN  /\ sess.pc = "sess.delete"
        /\ ~RowLocked(s, sess.recipe_id)
        /\ ~KeyShared(s, sess.recipe_id)
        /\ UNCHANGED serial
        /\ recipes' = [id \in DOMAIN recipes \ {sess.recipe_id} |-> recipes[id]]
        /\ recipe_ingredients' = DeleteRowsOf(recipe_ingredients, sess.recipe_id)
        /\ UNCHANGED <<kitchens, ingredients, recipes_id_seq>>
        /\ sessions' = [sessions EXCEPT ![s] = Ended(sess, 200, <<>>)]

\* The route has sent the response of the call.
close(s) ==
    /\ sessions[s].pc = "done"
    /\ sessions' = [sessions EXCEPT ![s] = Closed]
    /\ UNCHANGED <<store, serial>>

\* An update request with the fields the calls served at once set.
Patch(title, kitchen_name, ingredient_names) ==
    [title |-> title,
     instruction |-> None,
     cooking_time |-> None,
     cooking_difficulty |-> None,
     kitchen_name |-> kitchen_name,
     ingredient_names |-> ingredient_names]

\* The update requests of the calls served at once: two that replace the
\* ingredients, one that sets the title, one that fails at the kitchen after
\* the title, one that fails at the second name after the title, the kitchen,
\* the DELETE and the first name.
ConcurrentUpdates ==
    {Patch(None, None, Some(<<"Avocado">>)),
     Patch(None, None, Some(<<"Tomato">>)),
     Patch(Some(""), None, None),
     Patch(Some(""), Some(MissingKitchen), None),
     Patch(Some(""), Some("Spanish"), Some(<<"Tomato", MissingName>>))}

\* The create requests that fill the store for them.
ConcurrentCreates ==
    {recipe \in CreateRecipeSchema :
        /\ recipe.kitchen_id = 1
        /\ recipe.recipe_ingredients \in {<<>>, <<1>>}}

\* The ids the calls served at once name: those of the recipes created so
\* far, deleted or not.
AllocatedIds == 1..(recipes_id_seq - 1)

NextConcurrent ==
    \/ /\ recipes_id_seq <= MaxConcurrentRecipes
       /\ \E recipe \in ConcurrentCreates : create_recipe(recipe)
    \/ respond
    \/ \E s \in Sessions, recipe_id \in AllocatedIds,
          update_data \in ConcurrentUpdates :
            update_recipe_get(s, recipe_id, update_data)
    \/ \E s \in Sessions : update_recipe_kitchen(s)
    \/ \E s \in Sessions : update_recipe_delete(s)
    \/ \E s \in Sessions : update_recipe_name(s)
    \/ \E s \in Sessions : update_recipe_commit(s)
    \/ \E s \in Sessions, recipe_id \in AllocatedIds :
            delete_recipe_get(s, recipe_id)
    \/ \E s \in Sessions : delete_recipe_commit(s)
    \/ \E s \in Sessions : close(s)

SpecConcurrent == Init /\ [][NextConcurrent]_vars

(* ------------------------------- claims ------------------------------- *)

\* The call that ran last and how it ended.
Ran(name) == op = name

\* The ids of the recipes a call returned.
ReturnedIds == {r.id : r \in DOMAIN result}

\* The names of the ingredients a recipe is associated with.
NamesOf(rows, ings, recipe_id) ==
    {ings[x.ingredient_id] : x \in DOMAIN RowsOf(rows, recipe_id)}

\* The distinct names of a list, in the order of their first occurrence.
Distinct(names) ==
    LET first == {i \in DOMAIN names : \A j \in 1..(i - 1) : names[j] # names[i]}
        F[k \in 0..Len(names)] ==
            IF k = 0 THEN <<>>
            ELSE IF k \in first THEN Append(F[k - 1], names[k]) ELSE F[k - 1]
    IN  F[Len(names)]

\* C1: filter_recipes_by_ingredients(include=L), L not empty, returns exactly
\* the recipes whose set of ingredient names is a superset of the names of L.
\* Stated for the lists that repeat no name (C5 is about the others).
C1_IncludeReturnsSupersets ==
    (/\ Ran("filter_recipes_by_ingredients")
     /\ Truthy(request.include)
     /\ Distinct(request.include[1]) = request.include[1]
     /\ ~Truthy(request.exclude))
    => ReturnedIds =
         {id \in DOMAIN recipes :
            Range(request.include[1])
                \subseteq NamesOf(recipe_ingredients, ingredients, id)}

\* C2: filter_recipes_by_ingredients(exclude=L), L not empty, returns exactly
\* the recipes no row of which names an ingredient of L; a recipe with no row
\* at all is returned.
C2_ExcludeReturnsRecipesWithoutTheNames ==
    (/\ Ran("filter_recipes_by_ingredients")
     /\ ~Truthy(request.include)
     /\ Truthy(request.exclude))
    => ReturnedIds =
         {id \in DOMAIN recipes :
            NamesOf(recipe_ingredients, ingredients, id)
                \cap Range(request.exclude[1]) = {}}

\* C2, its case: an exclude list took one recipe out and left a recipe that
\* has no row in.
C2_Witness ==
    /\ Ran("filter_recipes_by_ingredients")
    /\ request.include = None
    /\ Truthy(request.exclude)
    /\ \E id \in DOMAIN recipes : id \notin ReturnedIds
    /\ \E id \in ReturnedIds : RowsOf(recipe_ingredients, id) = EmptyBag

\* C3: with include and exclude both not empty the result is the intersection
\* of the result for the include list alone and the result for the exclude
\* list alone, on the same tables.
C3_BothIsIntersection ==
    (/\ Ran("filter_recipes_by_ingredients")
     /\ Truthy(request.include)
     /\ Truthy(request.exclude))
    => BagToSet(result) =
         BagToSet(FilterResult(recipes, recipe_ingredients, ingredients,
                               request.include, None))
         \cap
         BagToSet(FilterResult(recipes, recipe_ingredients, ingredients,
                               None, request.exclude))

\* C3, its case: both lists given, and each list alone returns a recipe the
\* two together do not.
C3_Witness ==
    /\ Ran("filter_recipes_by_ingredients")
    /\ Truthy(request.include)
    /\ Truthy(request.exclude)
    /\ BagToSet(FilterResult(recipes, recipe_ingredients, ingredients,
                             request.include, None)) # BagToSet(result)
    /\ BagToSet(FilterResult(recipes, recipe_ingredients, ingredients,
                             None, request.exclude)) # BagToSet(result)

\* C4: with include and exclude both None or both the empty list the result
\* holds every recipe of the table, each exactly once.
C4_NoFilterReturnsEveryRecipeOnce ==
    (/\ Ran("filter_recipes_by_ingredients")
     /\ request.include \in {None, Some(<<>>)}
     /\ request.exclude = request.include)
    => /\ ReturnedIds = DOMAIN recipes
       /\ \A r \in DOMAIN result :
            /\ result[r] = 1
            /\ r = Loaded(recipes, recipe_ingredients, r.id)

\* C4, its case: both lists empty, two recipes in the table, one of them with
\* two rows (two result rows of the join).
C4_Witness ==
    /\ Ran("filter_recipes_by_ingredients")
    /\ request.include = Some(<<>>)
    /\ request.exclude = Some(<<>>)
    /\ Cardinality(DOMAIN recipes) = 2
    /\ \E id \in ReturnedIds :
          BagCardinality(RowsOf(recipe_ingredients, id)) = 2

\* C5: an include list returns what the list of its distinct names returns.
C5_IncludeIsDeduplicated ==
    (/\ Ran("filter_recipes_by_ingredients")
     /\ Truthy(request.include))
    => result =
         FilterResult(recipes, recipe_ingredients, ingredients,
                      Some(Distinct(request.include[1])), request.exclude)

\* C6: after a successful create_recipe, get_recipe_by_id of the returned id
\* finds a recipe with the kitchen, the set of ingredient ids and the title,
\* instruction, cooking_time and cooking_difficulty of the request, and the
\* recipe has as many rows as the request's list has ids.
C6_CreateThenGet ==
    (Ran("create_recipe") /\ status = 201)
    => \E new \in DOMAIN result :
         /\ result = SetToBag({new})
         /\ LET got == Fetch(recipes, recipe_ingredients, new.id)
            IN  /\ got # None
                /\ got[1].kitchen_id = request.kitchen_id
                /\ BagToSet(got[1].recipe_ingredients)
                     = Range(request.recipe_ingredients)
                /\ got[1].title = request.title
                /\ got[1].instruction = request.instruction
                /\ got[1].cooking_time = request.cooking_time
                /\ got[1].cooking_difficulty = request.cooking_difficulty
         /\ BagCardinality(RowsOf(recipe_ingredients, new.id))
              = Len(request.recipe_ingredients)

\* C6, its case: the second recipe created, in kitchen 2, with two ingredients.
C6_Witness ==
    /\ Ran("create_recipe")
    /\ status = 201
    /\ request.kitchen_id = 2
    /\ request.recipe_ingredients = <<2, 1>>
    /\ Cardinality(DOMAIN recipes) = 2

\* C7: create_recipe with a kitchen_id no kitchen has ends in 404
\* 'Kitchen not found' and leaves recipes and recipe_ingredients as they were,
\* whatever the ingredient list.
C7_CreateUnknownKitchen ==
    [][(/\ op' = "create_recipe"
        /\ request'.kitchen_id \notin DOMAIN kitchens)
       => /\ status' = 404
          /\ detail' = KitchenNotFound
          /\ recipes' = recipes
          /\ recipe_ingredients' = recipe_ingredients]_vars

\* C7, its case: the kitchen is unknown, the list holds an ingredient that
\* exists, and the table holds a recipe.
C7_Witness ==
    /\ Ran("create_recipe")
    /\ request.kitchen_id \notin DOMAIN kitchens
    /\ \E i \in DOMAIN request.recipe_ingredients :
          request.recipe_ingredients[i] \in DOMAIN ingredients
    /\ DOMAIN recipes # {}
    /\ status = 404

\* C8: create_recipe with a kitchen that exists and a list holding an id no
\* ingredient has ends in a 404 naming the first such id of the list, and adds
\* no recipe and no row.
C8_CreateUnknownIngredient ==
    [][(/\ op' = "create_recipe"
        /\ request'.kitchen_id \in DOMAIN kitchens
        /\ \E i \in DOMAIN request'.recipe_ingredients :
              request'.recipe_ingredients[i] \notin DOMAIN ingredients)
       => LET ids == request'.recipe_ingredients
              first == CHOOSE i \in DOMAIN ids :
                          /\ ids[i] \notin DOMAIN ingredients
                          /\ \A j \in 1..(i - 1) : ids[j] \in DOMAIN ingredients
          IN  /\ status' = 404
              /\ detail' = IngredientIdNotFound(ids[first])
              /\ recipes' = recipes
              /\ recipe_ingredients' = recipe_ingredients]_vars

\* C8, its case: the list ends with an id no ingredient has, after an
\* ingredient that exists.
C8_Witness ==
    /\ Ran("create_recipe")
    /\ status = 404
    /\ request.kitchen_id \in DOMAIN kitchens
    /\ Len(request.recipe_ingredients) = MaxLen
    /\ request.recipe_ingredients[1] \in DOMAIN ingredients
    /\ request.recipe_ingredients[MaxLen] \notin DOMAIN ingredients
    /\ detail = IngredientIdNotFound(request.recipe_ingredients[MaxLen])

\* C9: a successful update_recipe leaves every field the request does not
\* specify as it was (title, instruction, cooking_time, cooking_difficulty,
\* the kitchen, the rows of the recipe) and every other recipe and its rows.
C9_UpdateChangesOnlySpecified ==
    [][(op' = "update_recipe" /\ status' = 200)
       => LET id == request'.recipe_id
              data == request'.update_data
          IN  /\ DOMAIN recipes' = DOMAIN recipes
              /\ data.title = None
                   => recipes'[id].title = recipes[id].title
              /\ data.instruction = None
                   => recipes'[id].instruction = recipes[id].instruction
              /\ data.cooking_time = None
                   => recipes'[id].cooking_time = recipes[id].cooking_time
              /\ data.cooking_difficulty = None
                   => recipes'[id].cooking_difficulty
                        = recipes[id].cooking_difficulty
              /\ data.kitchen_name = None
                   => recipes'[id].kitchen_id = recipes[id].kitchen_id
              /\ data.ingredient_names = None
                   => RowsOf(recipe_ingredients', id)
                        = RowsOf(recipe_ingredients, id)
              /\ \A other \in DOMAIN recipes \ {id} :
                    /\ recipes'[other] = recipes[other]
                    /\ RowsOf(recipe_ingredients', other)
                         = RowsOf(recipe_ingredients, other)]_vars

\* C9, its case: only the title given, for a recipe with rows, beside another
\* recipe.
C9_Witness ==
    /\ Ran("update_recipe")
    /\ status = 200
    /\ request.update_data.title # None
    /\ request.update_data.instruction = None
    /\ request.update_data.cooking_time = None
    /\ request.update_data.cooking_difficulty = None
    /\ request.update_data.kitchen_name = None
    /\ request.update_data.ingredient_names = None
    /\ RowsOf(recipe_ingredients, request.recipe_id) # EmptyBag
    /\ Cardinality(DOMAIN recipes) = 2

\* C10: after a successful update_recipe with ingredient_names = L the
\* ingredients of the recipe are exactly those L resolved to (so none whose
\* name is not in L), the returned recipe shows the same ingredients, and
\* with kitchen_name given the recipe's kitchen has that name.
C10_UpdateReplacesIngredients ==
    (/\ Ran("update_recipe")
     /\ status = 200
     /\ request.update_data.ingredient_names # None)
    => LET id == request.recipe_id
           data == request.update_data
           now == BagToSet(IngredientIdsOf(recipe_ingredients, id))
       IN  /\ \E ids \in Resolutions(ingredients, data.ingredient_names[1]) :
                now = Range(ids)
           /\ \A r \in DOMAIN result :
                r.id = id /\ BagToSet(r.recipe_ingredients) = now
           /\ result # EmptyBag
           /\ data.kitchen_name # None
                => kitchens[recipes[id].kitchen_id] = data.kitchen_name[1]

\* C10, its case: the recipe moved to "Spanish" and linked to "Tomato" alone.
C10_Witness ==
    /\ Ran("update_recipe")
    /\ status = 200
    /\ request.update_data.kitchen_name = Some("Spanish")
    /\ request.update_data.ingredient_names = Some(<<"Tomato">>)
    /\ NamesOf(recipe_ingredients, ingredients, request.recipe_id) = {"Tomato"}

\* A step that ends a call of a session.
Ends(s) == sessions[s].pc # "done" /\ sessions'[s].pc = "done"

\* C11: an update_recipe that fails changes no table: the step that ends it
\* in 404 leaves the store as it was, and the store changes only in the step
\* that commits a call that succeeds, so the columns overwritten, the kitchen
\* set, the rows deleted and the rows added by a call that has not committed
\* are never in the tables another call reads.
C11_FailedUpdateChangesNothing ==
    [][/\ \A s \in Sessions :
            (/\ Ends(s)
             /\ sessions'[s].call = "update_recipe"
             /\ sessions'[s].status # 200)
            => store' = store
       /\ store' # store
            => \/ \E s \in Sessions : Ends(s) /\ sessions'[s].status = 200
               \/ op' = "create_recipe" /\ status' = 201]_vars

\* C11, its case: an update_recipe failed at the second name of its list,
\* after it overwrote the title, set the kitchen, deleted the row of the
\* recipe and added a row; the recipe has its title, kitchen and row.
C11_Witness ==
    \E s \in Sessions :
        /\ sessions[s].pc = "done"
        /\ sessions[s].call = "update_recipe"
        /\ sessions[s].status = 404
        /\ sessions[s].detail = IngredientNameNotFound(MissingName)
        /\ sessions[s].update_data.title = Some("")
        /\ sessions[s].update_data.kitchen_name = Some("Spanish")
        /\ sessions[s].recipe_id \in DOMAIN recipes
        /\ recipes[sessions[s].recipe_id].title = "Taco"
        /\ recipes[sessions[s].recipe_id].kitchen_id = 1
        /\ RowsOf(recipe_ingredients, sessions[s].recipe_id) # EmptyBag

\* C12: update_recipe ends in 404 exactly when no recipe has the id, or
\* kitchen_name is given and no kitchen has the name, or ingredient_names is
\* given and one of its names matches no ingredient; else it succeeds.  The
\* error is the recipe's before the kitchen's, the kitchen's before an
\* ingredient's, and names the first unresolvable name of the list.
C12_UpdateFailsExactlyOnNotFound ==
    [][(op' = "update_recipe")
       => LET id == request'.recipe_id
              data == request'.update_data
              noRecipe == id \notin DOMAIN recipes
              noKitchen ==
                  /\ data.kitchen_name # None
                  /\ \A k \in DOMAIN kitchens :
                        kitchens[k] # data.kitchen_name[1]
              names == IF data.ingredient_names = None
                       THEN <<>> ELSE data.ingredient_names[1]
              bad == {i \in DOMAIN names :
                        \A g \in DOMAIN ingredients : ingredients[g] # names[i]}
          IN  /\ status' \in {200, 404}
              /\ status' = 404 <=> (noRecipe \/ noKitchen \/ bad # {})
              /\ noRecipe => detail' = RecipeNotFound
              /\ (~noRecipe /\ noKitchen) => detail' = KitchenNotFound
              /\ (~noRecipe /\ ~noKitchen /\ bad # {})
                   => \E i \in bad :
                        /\ \A j \in bad : i <= j
                        /\ detail' = IngredientNameNotFound(names[i])]_vars

\* C12, its case: two names of the list match no ingredient and the error
\* names the first; the kitchen named exists.
C12_Witness ==
    /\ Ran("update_recipe")
    /\ status = 404
    /\ request.recipe_id \in DOMAIN recipes
    /\ request.update_data.kitchen_name = Some("Spanish")
    /\ request.update_data.ingredient_names
         = Some(<<OtherMissingName, MissingName>>)
    /\ detail = IngredientNameNotFound(OtherMissingName)

\* A delete_recipe(id) that succeeded.
Deleted(id) ==
    /\ Ran("delete_recipe")
    /\ status = 200
    /\ request.recipe_id = id

\* No recipe has the id, no row names it, and the call that ran last did not
\* find it: a get_recipe_by_id of it ended in 404, a filter did not return it,
\* a create_recipe did not give it to the new recipe.
Gone(id) ==
    /\ Fetch(recipes, recipe_ingredients, id) = None
    /\ RowsOf(recipe_ingredients, id) = EmptyBag
    /\ (Ran("get_recipe_by_id") /\ request.recipe_id = id)
         => (status = 404 /\ detail = RecipeNotFound)
    /\ Ran("filter_recipes_by_ingredients") => id \notin ReturnedIds
    /\ Ran("create_recipe") => id \notin ReturnedIds

\* C13: from a successful delete_recipe(id) on, in every later state
\* get_recipe_by_id(id) ends in 404, no row names the recipe, no filter
\* returns it and no create_recipe gives its id to a new recipe.
C13_DeletedStaysDeleted ==
    \A id \in RecipeIds : [](Deleted(id) => []Gone(id))

\* C13, its case: recipe 1 was deleted and a later create_recipe succeeded.
C13_Witness ==
    /\ Ran("create_recipe")
    /\ status = 201
    /\ 1 \notin DOMAIN recipes
    /\ recipes_id_seq > 1
    /\ RowsOf(recipe_ingredients, recipes_id_seq - 1) # EmptyBag

\* C14: get_recipe_by_id and delete_recipe of an id no recipe has end in 404
\* 'Recipe not found' and leave the store as it was; get_recipe_by_id of an id
\* a recipe has succeeds, returns that recipe with its rows and leaves the
\* store as it was.
C14_GetAndDeleteNotFound ==
    [][/\ (/\ op' \in {"get_recipe_by_id", "delete_recipe"}
           /\ request'.recipe_id \notin DOMAIN recipes)
          => /\ status' = 404
             /\ detail' = RecipeNotFound
             /\ store' = store
       /\ (/\ op' = "get_recipe_by_id"
           /\ request'.recipe_id \in DOMAIN recipes)
          => /\ status' = 200
             /\ result' = SetToBag({Loaded(recipes, recipe_ingredients,
                                           request'.recipe_id)})
             /\ store' = store]_vars

\* C14, its case: get_recipe_by_id of an id no recipe has, in a store that
\* holds a recipe with rows.
C14_Witness ==
    /\ Ran("get_recipe_by_id")
    /\ status = 404
    /\ request.recipe_id \notin DOMAIN recipes
    /\ recipe_ingredients # EmptyBag

\* C15: every recipe of the table has cooking_time > 0.
C15_CookingTimePositive ==
    \A id \in DOMAIN recipes : recipes[id].cooking_time > 0

\* C17: a successful update_recipe gives title, instruction and cooking_time
\* the value of the request when it carries one, the empty string and 0
\* included, and leaves the column as it was when the request carries None.
C17_OnlyNoneMeansNoChange ==
    [][(op' = "update_recipe" /\ status' = 200)
       => LET id == request'.recipe_id
              data == request'.update_data
          IN  /\ recipes'[id].title =
                    IF data.title = None
                    THEN recipes[id].title ELSE data.title[1]
              /\ recipes'[id].instruction =
                    IF data.instruction = None
                    THEN recipes[id].instruction ELSE data.instruction[1]
              /\ recipes'[id].cooking_time =
                    IF data.cooking_time = None
                    THEN recipes[id].cooking_time ELSE data.cooking_time[1]]_vars

\* C17, its case: the request carried the empty string for title and
\* instruction and 0 for cooking_time, and the recipe holds them.
C17_Witness ==
    /\ Ran("update_recipe")
    /\ status = 200
    /\ request.update_data.title = Some("")
    /\ request.update_data.instruction = Some("")
    /\ request.update_data.cooking_time = Some(0)
    /\ recipes[request.recipe_id].title = ""
    /\ recipes[request.recipe_id].instruction = ""
    /\ recipes[request.recipe_id].cooking_time = 0

\* C18: no two rows of recipe_ingredients have the same recipe and the same
\* ingredient.
C18_PairsAreUnique ==
    \A x \in DOMAIN recipe_ingredients : recipe_ingredients[x] = 1

\* C19: a successful delete_recipe(id) takes the recipe and its rows out and
\* leaves every other recipe, the rows of every other recipe, the ingredients
\* and the kitchens as they were.
C19_DeleteRemovesOnlyTheRecipe ==
    [][(op' = "delete_recipe" /\ status' = 200)
       => LET id == request'.recipe_id
          IN  /\ DOMAIN recipes' = DOMAIN recipes \ {id}
              /\ RowsOf(recipe_ingredients', id) = EmptyBag
              /\ \A other \in DOMAIN recipes \ {id} :
                    /\ recipes'[other] = recipes[other]
                    /\ RowsOf(recipe_ingredients', other)
                         = RowsOf(recipe_ingredients, other)
              /\ ingredients' = ingredients
              /\ kitchens' = kitchens]_vars

\* C19, its case: a recipe was deleted beside another that has rows and is in
\* a second kitchen.
C19_Witness ==
    /\ Ran("delete_recipe")
    /\ status = 200
    /\ \E other \in DOMAIN recipes :
          /\ RowsOf(recipe_ingredients, other) # EmptyBag
          /\ recipes[other].kitchen_id = 2

\* C16: when two update_recipe calls on one recipe, with ingredient_names A
\* and B, have both succeeded, the ingredients of the recipe are those of A or
\* those of B.
C16_ConcurrentUpdatesSerialized ==
    \A s \in Sessions, t \in Sessions :
        (/\ s # t
         /\ sessions[s].pc = "done" /\ sessions[t].pc = "done"
         /\ sessions[s].call = "update_recipe"
         /\ sessions[t].call = "update_recipe"
         /\ sessions[s].status = 200 /\ sessions[t].status = 200
         /\ sessions[s].recipe_id = sessions[t].recipe_id
         /\ sessions[s].recipe_id \in DOMAIN recipes
         /\ sessions[s].update_data.ingredient_names # None
         /\ sessions[t].update_data.ingredient_names # None)
        => \E u \in {s, t} :
             \E ids \in Resolutions(ingredients,
                                    sessions[u].update_data.ingredient_names[1]) :
                BagToSet(IngredientIdsOf(recipe_ingredients,
                                         sessions[s].recipe_id)) = Range(ids)

\* C20: in every state every recipe names a kitchen of the table and every
\* row of recipe_ingredients names a recipe and an ingredient of the tables.
C20_ReferentialIntegrity ==
    /\ \A id \in DOMAIN recipes : recipes[id].kitchen_id \in DOMAIN kitchens
    /\ \A x \in DOMAIN recipe_ingredients :
          /\ x.recipe_id \in DOMAIN recipes
          /\ x.ingredient_id \in DOMAIN ingredients

\* C20, its case: a delete_recipe committed while an update_recipe of the
\* same recipe had rows to insert, and the update ended in the error of the
\* foreign key.
C20_Witness ==
    \E s \in Sessions, t \in Sessions :
        /\ sessions[s].pc = "done"
        /\ sessions[s].call = "update_recipe"
        /\ sessions[s].status = 500
        /\ sessions[s].update_data.ingredient_names = Some(<<"Avocado">>)
        /\ sessions[t].pc = "done"
        /\ sessions[t].call = "delete_recipe"
        /\ sessions[t].status = 200
        /\ sessions[t].recipe_id = sessions[s].recipe_id
        /\ recipe_ingredients = EmptyBag

\* C21: of the calls served at once every one ends in success or in a 404,
\* none in the 500 of an exception of the store, and of two delete_recipe
\* calls of one recipe id at most one ends in success.
C21_ConcurrentCallsEndTyped ==
    /\ \A s \in Sessions :
          sessions[s].pc = "done" => sessions[s].status \in {200, 404}
    /\ \A s \in Sessions, t \in Sessions :
          (/\ s # t
           /\ sessions[s].pc = "done" /\ sessions[t].pc = "done"
           /\ sessions[s].call = "delete_recipe"
           /\ sessions[t].call = "delete_recipe"
           /\ sessions[s].recipe_id = sessions[t].recipe_id)
          => ~(sessions[s].status = 200 /\ sessions[t].status = 200)

====
